---- MODULE Spec2Model ----
(***************************************************************************)
(* Model of the digipres metadata pipeline: the Group Synthesizer of       *)
(* convert_metadata.py (convert) and of convert.py                         *)
(* (convert_metadata1_to_metadata), with the pure helpers they call, and   *)
(* the Row Normalizer's process_layer_count; and of main() of convert.py,  *)
(* stage by stage, on the files of its working directory.                  *)
(*                                                                         *)
(* A Python str is a sequence of one-character strings, so that prefix     *)
(* tests, splitting, stripping, regular-expression matching and the        *)
(* int()/str() conversions are computed character by character.            *)
(* Definitions modelling convert_metadata.py carry the prefix cm_; the     *)
(* ones modelling convert.py keep the source's names.                      *)
(***************************************************************************)
EXTENDS Integers, Sequences, FiniteSets, TLC

VARIABLES
    script,    \* which script's Group Synthesizer runs on the table
    rows,      \* the record list currently held by the table file
    prev,      \* the record list the last pass read
    passes,    \* passes applied so far: 0, 1, or 2 for "two or more"
    call,      \* the last call of a pure helper: [fn, args]
    ret,       \* the value that call returned
    returned,  \* whether a call has returned
    pc,        \* main() of convert.py: the stage to run next
    files,     \* the working directory: file name -> whether it exists, its rows
    unwritable,\* the files the process may not create or replace
    reports    \* what the stages of main() have reported, in order

vars == <<script, rows, prev, passes, call, ret, returned, pc, files, unwritable,
          reports>>

----------------------------------------------------------------------------
(* Bounds of the model.                                                    *)

\* longest record list read from a table
MaxRows == 3
\* longest list of child dates handed to infer_group_date directly
MaxDates == 3
\* most data rows of the input table of main()
MaxInputRows == 2

----------------------------------------------------------------------------
(* Python str primitives.                                                  *)

DigitSeq == <<"0","1","2","3","4","5","6","7","8","9">>
LowerSeq == <<"a","b","c","d","e","f","g","h","i","j","k","l","m","n","o","p","q","r","s","t","u","v","w","x","y","z">> (* "abcdefghijklmnopqrstuvwxyz" *)
UpperSeq == <<"A","B","C","D","E","F","G","H","I","J","K","L","M","N","O","P","Q","R","S","T","U","V","W","X","Y","Z">> (* "ABCDEFGHIJKLMNOPQRSTUVWXYZ" *)

Range(s) == {s[i] : i \in DOMAIN s}

Digits == Range(DigitSeq)
Alnum == Range(LowerSeq) \cup Range(UpperSeq) \cup Digits
\* \w of the re module (ASCII part)
WordChars == Alnum \cup {"_"}
\* what str.strip() and str.split() treat as white space (ASCII part)
Whitespace == {" ", "\t", "\n", "\r"}

SetMin(S) == CHOOSE x \in S : \A y \in S : x <= y
SetMax(S) == CHOOSE x \in S : \A y \in S : y <= x

\* s.startswith(p)
startswith(s, p) == Len(s) >= Len(p) /\ SubSeq(s, 1, Len(p)) = p

\* s.strip()
strip(s) ==
    LET keep == {i \in DOMAIN s : s[i] \notin Whitespace}
    IN  IF keep = {} THEN <<>> ELSE SubSeq(s, SetMin(keep), SetMax(keep))

\* s.upper()
upper(s) ==
    [i \in DOMAIN s |->
        IF s[i] \in Range(LowerSeq)
        THEN UpperSeq[CHOOSE k \in DOMAIN LowerSeq : LowerSeq[k] = s[i]]
        ELSE s[i]]

\* s.isdigit()
isdigit(s) == s # <<>> /\ \A i \in DOMAIN s : s[i] \in Digits

\* s.rfind(c): 0 stands for Python's -1, positions count from 1
rfind(s, c) ==
    LET at == {i \in DOMAIN s : s[i] = c}
    IN  IF at = {} THEN 0 ELSE SetMax(at)

\* int(s) of a string of decimal digits
RECURSIVE int(_)
int(s) ==
    IF s = <<>> THEN 0
    ELSE 10 * int(SubSeq(s, 1, Len(s) - 1))
         + (CHOOSE k \in DOMAIN DigitSeq : DigitSeq[k] = s[Len(s)]) - 1

\* str(n) of a non-negative int
RECURSIVE str(_)
str(n) ==
    IF n < 10 THEN <<DigitSeq[n + 1]>>
    ELSE str(n \div 10) \o <<DigitSeq[(n % 10) + 1]>>

\* the truth value of a str that the code also strips: "x and x.strip()"
nonblank(s) == s # <<>> /\ strip(s) # <<>>

\* Counter(vals).most_common(1)[0]: the first-inserted value of greatest count
count(vals, v) == Cardinality({i \in DOMAIN vals : vals[i] = v})

most_common(vals) ==
    LET i == CHOOSE i \in DOMAIN vals :
                 /\ \A j \in DOMAIN vals : count(vals, vals[j]) <= count(vals, vals[i])
                 /\ \A j \in 1..(i - 1) : count(vals, vals[j]) < count(vals, vals[i])
    IN  <<vals[i], count(vals, vals[i])>>

\* min(years), max(years)
min(years) == SetMin(Range(years))
max(years) == SetMax(Range(years))

\* YEAR_RE.findall(s) scanning from position i: non-overlapping matches of
\* (19\d{2}|20\d{2}), leftmost first
RECURSIVE YEAR_RE_findall(_, _)
YEAR_RE_findall(s, i) ==
    IF i + 3 > Len(s) THEN <<>>
    ELSE IF /\ \/ s[i] = "1" /\ s[i + 1] = "9"
               \/ s[i] = "2" /\ s[i + 1] = "0"
            /\ s[i + 2] \in Digits
            /\ s[i + 3] \in Digits
         THEN <<SubSeq(s, i, i + 3)>> \o YEAR_RE_findall(s, i + 4)
         ELSE YEAR_RE_findall(s, i + 1)

\* re.match(r'^(Item is a )([A-Za-z0-9]+)( file\b.*)$', desc): <<>> when there
\* is no match, else the three groups.  Group 2 is the whole alphanumeric run
\* (the next character must be the space of " file"); \b wants a non-word
\* character or the end after "file"; "." matches no newline and $ matches at
\* the end or before one final newline, which then belongs to no group.
ITEM_RE_match(desc) ==
    LET g1   == <<"I","t","e","m"," ","i","s"," ","a"," ">> (* "Item is a " *)
        file == <<" ","f","i","l","e">> (* " file" *)
        rest == SubSeq(desc, Len(g1) + 1, Len(desc))
        stop == {i \in DOMAIN rest : rest[i] \notin Alnum}
        n    == IF stop = {} THEN Len(rest) ELSE SetMin(stop) - 1
        ext  == SubSeq(rest, 1, n)
        aft  == SubSeq(rest, n + 1, Len(rest))
        more == SubSeq(aft, Len(file) + 1, Len(aft))
        body == IF more # <<>> /\ more[Len(more)] = "\n"
                THEN SubSeq(more, 1, Len(more) - 1) ELSE more
    IN  IF /\ startswith(desc, g1)
           /\ n >= 1
           /\ startswith(aft, file)
           /\ (more = <<>> \/ more[1] \notin WordChars)
           /\ \A i \in DOMAIN body : body[i] # "\n"
        THEN <<g1, ext, file \o body>>
        ELSE <<>>

\* os.path.basename(p) of posixpath
os_path_basename(p) == SubSeq(p, rfind(p, "/") + 1, Len(p))

\* os.path.splitext(p)[0] of posixpath: the last dot starts the extension
\* unless only dots precede it in the last path segment
os_path_splitext_root(p) ==
    LET sepIndex == rfind(p, "/")
        dotIndex == rfind(p, ".")
    IN  IF /\ dotIndex > sepIndex
           /\ \E k \in (sepIndex + 1)..(dotIndex - 1) : p[k] # "."
        THEN SubSeq(p, 1, dotIndex - 1)
        ELSE p

----------------------------------------------------------------------------
(* convert_metadata.py: the helpers of convert.                            *)

cm_basename_from_path(path) ==
    IF path = <<>> THEN <<>> ELSE os_path_basename(path)

\* the returned string joins the three groups as they were matched
cm_ensure_description_parens(desc) ==
    IF desc = <<>> THEN desc
    ELSE LET m == ITEM_RE_match(desc)
         IN  IF m # <<>> THEN m[1] \o m[2] \o m[3] ELSE desc

RECURSIVE cm_extract_years_from_strings(_)
cm_extract_years_from_strings(strings) ==
    IF strings = <<>> THEN <<>>
    ELSE LET s  == Head(strings)
             ys == IF s = <<>> THEN <<>> ELSE YEAR_RE_findall(s, 1)
         IN  [k \in DOMAIN ys |-> int(ys[k])]
             \o cm_extract_years_from_strings(Tail(strings))

\* A faulty variant of cm_infer_group_date, joining min and max even when
\* they are the same year; C3 is tested against it.
cm_infer_group_date_always_range(child_dates) ==
    LET vals == SelectSeq(child_dates, nonblank)
    IN  IF vals = <<>> THEN <<>>
        ELSE IF most_common(vals)[2] > 1 THEN most_common(vals)[1]
        ELSE LET years == cm_extract_years_from_strings(vals)
             IN  IF years = <<>> THEN vals[1]
                 ELSE str(min(years)) \o <<"-">> \o str(max(years))

cm_infer_group_date(child_dates) ==
    LET vals == SelectSeq(child_dates, nonblank)
    IN  IF vals = <<>> THEN <<>>
        ELSE IF most_common(vals)[2] > 1 THEN most_common(vals)[1]
        ELSE LET years == cm_extract_years_from_strings(vals)
             IN  IF years = <<>> THEN vals[1]
                 ELSE IF min(years) = max(years) THEN str(min(years))
                 ELSE str(min(years)) \o <<"-">> \o str(max(years))

----------------------------------------------------------------------------
(* convert.py: the Row Normalizer's description text.                      *)

\* A faulty variant of process_layer_count, choosing "layers" by the
\* incremented count; C10 is tested against it.
process_layer_count_plural_by_new(layer_count, extension, title, filename) ==
    IF isdigit(layer_count)
    THEN LET layer_count_num == int(layer_count)
             new_layer_count == layer_count_num + 1
         IN  IF new_layer_count > 1
             THEN <<"I","t","e","m"," ","i","s"," ","a"," ","P","h","o","t","o","s","h","o","p"," ","f","i","l","e"," ","w","i","t","h"," ">> (* "Item is a Photoshop file with " *) \o str(new_layer_count) \o <<" ","l","a","y","e","r","s",".">> (* " layers." *)
             ELSE <<"I","t","e","m"," ","i","s"," ","a"," ","P","h","o","t","o","s","h","o","p"," ","f","i","l","e"," ","w","i","t","h"," ">> (* "Item is a Photoshop file with " *) \o str(new_layer_count) \o <<" ","l","a","y","e","r",".">> (* " layer." *)
    ELSE LET label ==
                 IF strip(title) # <<>> /\ upper(strip(title)) # <<"N","U","L","L">> (* "NULL" *)
                 THEN strip(title)
                 ELSE IF strip(filename) # <<>>
                      THEN os_path_splitext_root(os_path_basename(strip(filename)))
                      ELSE <<>>
         IN  IF extension # <<>>
             THEN IF label # <<>>
                  THEN <<"I","t","e","m"," ","i","s"," ","a"," ","e","x","t","e","n","s","i","o","n","}"," ","f","i","l","e"," ","r","e","l","a","t","i","n","g"," ","t","o"," ">> (* "Item is a extension} file relating to " *) \o label
                  ELSE <<"I","t","e","m"," ","i","s"," ","a"," ","(">> (* "Item is a (" *) \o extension \o <<")"," ","f","i","l","e",".">> (* ") file." *)
             ELSE IF label # <<>>
                  THEN <<"I","t","e","m"," ","i","s"," ","a"," ","f","i","l","e"," ","r","e","l","a","t","i","n","g"," ","t","o"," ">> (* "Item is a file relating to " *) \o label
                  ELSE <<"I","t","e","m"," ","i","s"," ","a"," ","f","i","l","e",".">> (* "Item is a file." *)

\* Line 109 is written  f"Item is a extension} file relating to {label}" :
\* the braces around "extension" are unbalanced, so the text between the
\* quotes up to {label} is taken as it stands.
process_layer_count(layer_count, extension, title, filename) ==
    IF isdigit(layer_count)
    THEN LET layer_count_num == int(layer_count)
             new_layer_count == layer_count_num + 1
         IN  IF layer_count_num > 1
             THEN <<"I","t","e","m"," ","i","s"," ","a"," ","P","h","o","t","o","s","h","o","p"," ","f","i","l","e"," ","w","i","t","h"," ">> (* "Item is a Photoshop file with " *) \o str(new_layer_count) \o <<" ","l","a","y","e","r","s",".">> (* " layers." *)
             ELSE <<"I","t","e","m"," ","i","s"," ","a"," ","P","h","o","t","o","s","h","o","p"," ","f","i","l","e"," ","w","i","t","h"," ">> (* "Item is a Photoshop file with " *) \o str(new_layer_count) \o <<" ","l","a","y","e","r",".">> (* " layer." *)
    ELSE LET label ==
                 IF strip(title) # <<>> /\ upper(strip(title)) # <<"N","U","L","L">> (* "NULL" *)
                 THEN strip(title)
                 ELSE IF strip(filename) # <<>>
                      THEN os_path_splitext_root(os_path_basename(strip(filename)))
                      ELSE <<>>
         IN  IF extension # <<>>
             THEN IF label # <<>>
                  THEN <<"I","t","e","m"," ","i","s"," ","a"," ","e","x","t","e","n","s","i","o","n","}"," ","f","i","l","e"," ","r","e","l","a","t","i","n","g"," ","t","o"," ">> (* "Item is a extension} file relating to " *) \o label
                  ELSE <<"I","t","e","m"," ","i","s"," ","a"," ","(">> (* "Item is a (" *) \o extension \o <<")"," ","f","i","l","e",".">> (* ") file." *)
             ELSE IF label # <<>>
                  THEN <<"I","t","e","m"," ","i","s"," ","a"," ","f","i","l","e"," ","r","e","l","a","t","i","n","g"," ","t","o"," ">> (* "Item is a file relating to " *) \o label
                  ELSE <<"I","t","e","m"," ","i","s"," ","a"," ","f","i","l","e",".">> (* "Item is a file." *)

----------------------------------------------------------------------------
(* convert.py: the helpers of convert_metadata1_to_metadata.               *)

basename_from_path(path) ==
    IF path = <<>> THEN <<>> ELSE os_path_basename(path)

ensure_description_parens(desc) ==
    IF desc = <<>> THEN desc
    ELSE LET m == ITEM_RE_match(desc)
         IN  IF m # <<>> THEN m[1] \o <<"(">> \o m[2] \o <<")">> \o m[3] ELSE desc

RECURSIVE extract_years_from_strings(_)
extract_years_from_strings(strings) ==
    IF strings = <<>> THEN <<>>
    ELSE LET s  == Head(strings)
             ys == IF s = <<>> THEN <<>> ELSE YEAR_RE_findall(s, 1)
         IN  [k \in DOMAIN ys |-> int(ys[k])]
             \o extract_years_from_strings(Tail(strings))

\* A faulty variant of infer_group_date without the majority vote; C2 is
\* tested against it.
infer_group_date_years_only(child_dates) ==
    LET vals == SelectSeq(child_dates, nonblank)
    IN  IF vals = <<>> THEN <<>>
        ELSE LET years == extract_years_from_strings(vals)
             IN  IF years = <<>> THEN vals[1]
                 ELSE IF min(years) = max(years) THEN str(min(years))
                 ELSE str(min(years)) \o <<"-">> \o str(max(years))

infer_group_date(child_dates) ==
    LET vals == SelectSeq(child_dates, nonblank)
    IN  IF vals = <<>> THEN <<>>
        ELSE IF most_common(vals)[2] > 1 THEN most_common(vals)[1]
        ELSE LET years == extract_years_from_strings(vals)
             IN  IF years = <<>> THEN vals[1]
                 ELSE IF min(years) = max(years) THEN str(min(years))
                 ELSE str(min(years)) \o <<"-">> \o str(max(years))

----------------------------------------------------------------------------
(* Records: one table row.  The fields are the columns filename, dc.title, *)
(* dc.date, dc.format, dc.format2 and dc.description.                      *)

Record(filename, title, date, format, format2, description) ==
    [filename |-> filename, title |-> title, date |-> date,
     format |-> format, format2 |-> format2, description |-> description]

\* fname.rsplit('/', 1)[-1]
rsplit_last(fname) == SubSeq(fname, rfind(fname, "/") + 1, Len(fname))

----------------------------------------------------------------------------
(* convert_metadata.py: convert, from the rows read to the rows written.   *)

\* lines 98-107: drop the first row whose stripped filename is "objects"
cm_remove_first_objects(rs) ==
    LET hits == {i \in DOMAIN rs : strip(rs[i].filename) = <<"o","b","j","e","c","t","s">> (* "objects" *)}
    IN  IF hits = {} THEN rs
        ELSE SubSeq(rs, 1, SetMin(hits) - 1) \o SubSeq(rs, SetMin(hits) + 1, Len(rs))

\* lines 110-114, scanning from position idx
RECURSIVE cm_group_indices(_, _)
cm_group_indices(rs, idx) ==
    IF idx > Len(rs) THEN <<>>
    ELSE (IF startswith(rs[idx].filename, <<"o","b","j","e","c","t","s","/">> (* "objects/" *)) THEN <<idx>> ELSE <<>>)
         \o cm_group_indices(rs, idx + 1)

\* lines 118-119: start and end of the i-th group; positions count from 1,
\* so len(rows) is the position Len(rs) + 1
cm_start(gi, i) == gi[i]
cm_end(rs, gi, i) == IF i + 1 <= Len(gi) THEN gi[i + 1] ELSE Len(rs) + 1

\* line 122: range(start+1, end)
cm_child_range(rs, gi, i) == (cm_start(gi, i) + 1)..(cm_end(rs, gi, i) - 1)

\* lines 121-125
cm_child_dates(rs, gi, i) ==
    [k \in 1..Cardinality(cm_child_range(rs, gi, i)) |->
        strip(rs[cm_start(gi, i) + k].date)]

\* A faulty variant of cm_group_row, writing the inferred date even when it
\* is empty; C7 is tested against it.
cm_group_row_date_overwritten(r, inferred) ==
    LET fname    == r.filename
        last_seg == IF fname # <<>> THEN rsplit_last(fname) ELSE <<>>
    IN  [r EXCEPT
            !.title = last_seg,
            !.date = inferred,
            !.format = IF ~nonblank(@) THEN <<"1"," ","d","i","g","i","t","a","l"," ","f","o","l","d","e","r">> (* "1 digital folder" *) ELSE @,
            !.description = <<"F","o","l","d","e","r"," ","c","o","n","t","a","i","n","s"," ","f","i","l","e","s"," ","r","e","l","a","t","i","n","g"," ","t","o"," ">> (* "Folder contains files relating to " *) \o last_seg]

\* lines 129-141: the group row's fields
cm_group_row(r, inferred) ==
    LET fname    == r.filename
        last_seg == IF fname # <<>> THEN rsplit_last(fname) ELSE <<>>
    IN  [r EXCEPT
            !.title = last_seg,
            !.date = IF inferred # <<>> THEN inferred ELSE @,
            !.format = IF ~nonblank(@) THEN <<"1"," ","d","i","g","i","t","a","l"," ","f","o","l","d","e","r">> (* "1 digital folder" *) ELSE @,
            !.description = <<"F","o","l","d","e","r"," ","c","o","n","t","a","i","n","s"," ","f","i","l","e","s"," ","r","e","l","a","t","i","n","g"," ","t","o"," ">> (* "Folder contains files relating to " *) \o last_seg]

\* lines 117-141, from the i-th group on
RECURSIVE cm_group_loop(_, _, _)
cm_group_loop(rs, gi, i) ==
    IF i > Len(gi) THEN rs
    ELSE cm_group_loop(
             [rs EXCEPT ![gi[i]] =
                 cm_group_row(rs[gi[i]], cm_infer_group_date(cm_child_dates(rs, gi, i)))],
             gi, i + 1)

\* lines 144-151
cm_normalize_data_rows(rs) ==
    [k \in DOMAIN rs |->
        IF startswith(rs[k].filename, <<"d","a","t","a","/","o","b","j","e","c","t","s","/">> (* "data/objects/" *))
        THEN [rs[k] EXCEPT
                 !.title = IF ~nonblank(@) THEN cm_basename_from_path(rs[k].filename) ELSE @,
                 !.description = cm_ensure_description_parens(@)]
        ELSE rs[k]]

cm_convert(rs) ==
    LET kept == cm_remove_first_objects(rs)
    IN  cm_normalize_data_rows(cm_group_loop(kept, cm_group_indices(kept, 1), 1))

----------------------------------------------------------------------------
(* convert.py: convert_metadata1_to_metadata, from the rows read to the    *)
(* rows written.                                                           *)

\* lines 427-431, scanning from position idx
RECURSIVE group_indices(_, _)
group_indices(rs, idx) ==
    IF idx > Len(rs) THEN <<>>
    ELSE (IF startswith(rs[idx].filename, <<"o","b","j","e","c","t","s","/">> (* "objects/" *)) THEN <<idx>> ELSE <<>>)
         \o group_indices(rs, idx + 1)

\* A faulty variant of end, running every group to the end of the list; C1
\* is tested against it.
end_of_list(rs, gi, i) == Len(rs) + 1

\* lines 435-436
start(gi, i) == gi[i]
end(rs, gi, i) == IF i + 1 <= Len(gi) THEN gi[i + 1] ELSE Len(rs) + 1

\* line 438: range(start+1, end)
child_range(rs, gi, i) == (start(gi, i) + 1)..(end(rs, gi, i) - 1)

\* lines 437-440
child_dates(rs, gi, i) ==
    [k \in 1..Cardinality(child_range(rs, gi, i)) |->
        strip(rs[start(gi, i) + k].date)]

\* A faulty variant of group_row, writing "1 digital folder" over any format;
\* C6 is tested against it.
group_row_format_overwritten(r, inferred) ==
    LET fname    == r.filename
        last_seg == IF fname # <<>> THEN rsplit_last(fname) ELSE <<>>
    IN  [r EXCEPT
            !.title = last_seg,
            !.date = IF inferred # <<>> THEN inferred ELSE @,
            !.format = <<"1"," ","d","i","g","i","t","a","l"," ","f","o","l","d","e","r">> (* "1 digital folder" *),
            !.description = <<"F","o","l","d","e","r"," ","c","o","n","t","a","i","n","s"," ","f","i","l","e","s"," ","r","e","l","a","t","i","n","g"," ","t","o"," ">> (* "Folder contains files relating to " *) \o last_seg]

\* lines 442-450
group_row(r, inferred) ==
    LET fname    == r.filename
        last_seg == IF fname # <<>> THEN rsplit_last(fname) ELSE <<>>
    IN  [r EXCEPT
            !.title = last_seg,
            !.date = IF inferred # <<>> THEN inferred ELSE @,
            !.format = IF ~nonblank(@) THEN <<"1"," ","d","i","g","i","t","a","l"," ","f","o","l","d","e","r">> (* "1 digital folder" *) ELSE @,
            !.description = <<"F","o","l","d","e","r"," ","c","o","n","t","a","i","n","s"," ","f","i","l","e","s"," ","r","e","l","a","t","i","n","g"," ","t","o"," ">> (* "Folder contains files relating to " *) \o last_seg]

\* lines 434-450, from the i-th group on
RECURSIVE group_loop(_, _, _)
group_loop(rs, gi, i) ==
    IF i > Len(gi) THEN rs
    ELSE group_loop(
             [rs EXCEPT ![gi[i]] =
                 group_row(rs[gi[i]], infer_group_date(child_dates(rs, gi, i)))],
             gi, i + 1)

\* A faulty variant of normalize_data_rows, writing the base name over any
\* title; C8 is tested against it.
normalize_data_rows_title_overwritten(rs) ==
    [k \in DOMAIN rs |->
        IF startswith(rs[k].filename, <<"d","a","t","a","/","o","b","j","e","c","t","s","/">> (* "data/objects/" *))
        THEN [rs[k] EXCEPT
                 !.title = basename_from_path(rs[k].filename),
                 !.description = ensure_description_parens(@)]
        ELSE rs[k]]

\* lines 453-458
normalize_data_rows(rs) ==
    [k \in DOMAIN rs |->
        IF startswith(rs[k].filename, <<"d","a","t","a","/","o","b","j","e","c","t","s","/">> (* "data/objects/" *))
        THEN [rs[k] EXCEPT
                 !.title = IF ~nonblank(@) THEN basename_from_path(rs[k].filename) ELSE @,
                 !.description = ensure_description_parens(@)]
        ELSE rs[k]]

convert_metadata1_to_metadata(rs) ==
    normalize_data_rows(group_loop(rs, group_indices(rs, 1), 1))

----------------------------------------------------------------------------
(* The tables the Group Synthesizer is run on.                             *)

FolderA ==
    Record(<<"o","b","j","e","c","t","s","/","A">> (* "objects/A" *), <<>>, <<>>, <<" ">>, <<>>, <<>>)
FolderAB ==
    Record(<<"o","b","j","e","c","t","s","/","A","/","B">> (* "objects/A/B" *), <<"o","l","d">> (* "old" *), <<"1","9","9","0">> (* "1990" *), <<"2"," ","b","o","x","e","s">> (* "2 boxes" *), <<>>, <<"k","e","p","t">> (* "kept" *))
ObjectsRow ==
    Record(<<"o","b","j","e","c","t","s">> (* "objects" *), <<>>, <<>>, <<>>, <<>>, <<>>)
Photo ==
    Record(<<"d","a","t","a","/","o","b","j","e","c","t","s","/","A","/","1",".","j","p","g">> (* "data/objects/A/1.jpg" *), <<>>, <<"2","0","1","0">> (* "2010" *), <<"1"," ","p","h","o","t","o","g","r","a","p","h"," ","(","j","p","g",")">> (* "1 photograph (jpg)" *),
           <<"i","m","a","g","e","/","j","p","e","g">> (* "image/jpeg" *), <<"I","t","e","m"," ","i","s"," ","a"," ","j","p","g"," ","f","i","l","e"," ","r","e","l","a","t","i","n","g"," ","t","o"," ","1">> (* "Item is a jpg file relating to 1" *))
Report ==
    Record(<<"d","a","t","a","/","o","b","j","e","c","t","s","/","A","/","2",".","p","d","f">> (* "data/objects/A/2.pdf" *), <<"T","r","i","p">> (* "Trip" *), <<"2","0","1","0">> (* "2010" *), <<"3"," ","p","."," ","(","p","d","f",")">> (* "3 p. (pdf)" *),
           <<"a","p","p","l","i","c","a","t","i","o","n","/","p","d","f">> (* "application/pdf" *), <<"I","t","e","m"," ","i","s"," ","a"," ","(","p","d","f",")"," ","f","i","l","e"," ","r","e","l","a","t","i","n","g"," ","t","o"," ","T","r","i","p">> (* "Item is a (pdf) file relating to Trip" *))
Notes ==
    Record(<<"d","a","t","a","/","o","b","j","e","c","t","s","/","A","/","B","/","3",".","t","x","t">> (* "data/objects/A/B/3.txt" *), <<" ">>, <<"2","0","1","2","-","0","5","-","0","1">> (* "2012-05-01" *), <<"1"," ","d","i","g","i","t","a","l"," ","f","i","l","e"," ","(","t","x","t",")">> (* "1 digital file (txt)" *),
           <<"t","e","x","t","/","p","l","a","i","n">> (* "text/plain" *), <<"n","o","t","e","s">> (* "notes" *))
Undated ==
    Record(<<"d","a","t","a","/","o","b","j","e","c","t","s","/","4">> (* "data/objects/4" *), <<>>, <<" ">>, <<>>, <<>>, <<>>)
Stray ==
    Record(<<"m","i","s","c",".","t","x","t">> (* "misc.txt" *), <<>>, <<"1","9","9","9">> (* "1999" *), <<>>, <<>>, <<>>)

RecordPool == {FolderA, FolderAB, ObjectsRow, Photo, Report, Notes, Undated, Stray}

\* no helper has been called
NoCall == [fn |-> "none", args |-> <<>>]

SeqsUpTo(S, n) == UNION {[1..k -> S] : k \in 0..n}

----------------------------------------------------------------------------
(* convert.py: the files of main, lines 503 and 508-511, and line 215.     *)

input_csv == "metadataExp.csv"
tmp_csv == "metadataTmp.csv"
tmp2_csv == "metadataTmp2.csv"
metadata1_csv == "metadata1.csv"
final_metadata_csv == "metadata.csv"
rights_file == "rights.csv"

FileNames ==
    {input_csv, tmp_csv, tmp2_csv, metadata1_csv, final_metadata_csv, rights_file}

Absent == [exists |-> FALSE, lines |-> <<>>]
NoFiles == [f \in FileNames |-> Absent]

----------------------------------------------------------------------------
(* Running a script's Group Synthesizer on the table, any number of times. *)

Init ==
    /\ script \in {"convert_metadata.py", "convert.py"}
    /\ rows \in SeqsUpTo(RecordPool, MaxRows)
    /\ prev = <<>>
    /\ passes = 0
    /\ call = NoCall
    /\ ret = <<>>
    /\ returned = FALSE
    /\ pc = "idle"
    /\ files = NoFiles
    /\ unwritable = {}
    /\ reports = <<>>

\* convert_metadata.py: convert(infile, outfile) on the table
Convert ==
    /\ script = "convert_metadata.py"
    /\ prev' = rows
    /\ rows' = cm_convert(rows)
    /\ passes' = IF passes = 0 THEN 1 ELSE 2
    /\ UNCHANGED <<script, call, ret, returned, pc, files, unwritable, reports>>

\* convert.py: convert_metadata1_to_metadata(infile, outfile) on the table
ConvertMetadata1ToMetadata ==
    /\ script = "convert.py"
    /\ prev' = rows
    /\ rows' = convert_metadata1_to_metadata(rows)
    /\ passes' = IF passes = 0 THEN 1 ELSE 2
    /\ UNCHANGED <<script, call, ret, returned, pc, files, unwritable, reports>>

Next ==
    \/ Convert
    \/ ConvertMetadata1ToMetadata

Spec == Init /\ [][Next]_vars

----------------------------------------------------------------------------
(* Inputs of the direct calls.                                             *)

DatePool ==
    { <<>>,
      <<" ">>,
      <<"2","0","0","8","-","0","6","-","2","0">> (* "2008-06-20" *),
      <<"1","9","9","9","-","0","1","-","0","1">> (* "1999-01-01" *),
      <<"2","0","0","5">> (* "2005" *),
      <<" ","2","0","0","5">> (* " 2005" *),
      <<"u","n","d","a","t","e","d">> (* "undated" *),
      <<"1","9","9","9","/","2","0","0","5">> (* "1999/2005" *) }

DescPool ==
    { <<>>,
      <<"I","t","e","m"," ","i","s"," ","a"," ","j","p","g"," ","f","i","l","e"," ","r","e","l","a","t","i","n","g"," ","t","o"," ","t","r","i","p">> (* "Item is a jpg file relating to trip" *),
      <<"I","t","e","m"," ","i","s"," ","a"," ","(","j","p","g",")"," ","f","i","l","e"," ","r","e","l","a","t","i","n","g"," ","t","o"," ","t","r","i","p">> (* "Item is a (jpg) file relating to trip" *),
      <<"I","t","e","m"," ","i","s"," ","a"," ","j","p","g"," ","f","i","l","e">> (* "Item is a jpg file" *),
      <<"I","t","e","m"," ","i","s"," ","a"," ","j","p","g"," ","f","i","l","e","s">> (* "Item is a jpg files" *),
      <<"I","t","e","m"," ","i","s"," ","a"," ","j","p","-","g"," ","f","i","l","e">> (* "Item is a jp-g file" *),
      <<"I","t","e","m"," ","i","s"," ","a"," "," ","f","i","l","e">> (* "Item is a  file" *),
      <<"I","t","e","m"," ","i","s"," ","a"," ","f","i","l","e",".">> (* "Item is a file." *),
      <<"i","t","e","m"," ","i","s"," ","a"," ","j","p","g"," ","f","i","l","e">> (* "item is a jpg file" *),
      <<"A","n"," ","I","t","e","m"," ","i","s"," ","a"," ","j","p","g"," ","f","i","l","e">> (* "An Item is a jpg file" *),
      <<"I","t","e","m"," ","i","s"," ","a"," ","P","h","o","t","o","s","h","o","p"," ","f","i","l","e"," ","w","i","t","h"," ","6"," ","l","a","y","e","r","s",".">> (* "Item is a Photoshop file with 6 layers." *),
      <<"F","o","l","d","e","r"," ","c","o","n","t","a","i","n","s"," ","f","i","l","e","s"," ","r","e","l","a","t","i","n","g"," ","t","o"," ","A">> (* "Folder contains files relating to A" *) }

LayerCountPool ==
    { <<>>, <<"0">>, <<"1">>, <<"2">>, <<"5">>, <<"9">>, <<"1","2">> (* "12" *), <<"0","0","7">> (* "007" *), <<"x">>, <<" ","5">> (* " 5" *), <<"-","1">> (* "-1" *) }

ExtensionPool == { <<>>, <<"p","s","d">> (* "psd" *), <<"p","d","f">> (* "pdf" *) }

TitlePool == { <<>>, <<" ">>, <<"N","U","L","L">> (* "NULL" *), <<"n","u","l","l">> (* "null" *), <<" ","T","r","i","p"," ">> (* " Trip " *) }

FileNamePool == { <<>>, <<"x",".","p","s","d">> (* "x.psd" *), <<"d","i","r","/","a",".","b",".","c">> (* "dir/a.b.c" *), <<".","h","i","d","d","e","n">> (* ".hidden" *), <<"p","l","a","i","n">> (* "plain" *) }

----------------------------------------------------------------------------
(* The direct calls: one action per helper.                                *)

CmInferGroupDate ==
    \E dates \in SeqsUpTo(DatePool, MaxDates) :
        /\ ~returned
        /\ call' = [fn |-> "cm_infer_group_date", args |-> dates]
        /\ ret' = cm_infer_group_date(dates)
        /\ returned' = TRUE
        /\ UNCHANGED <<script, rows, prev, passes, pc, files, unwritable, reports>>

InferGroupDate ==
    \E dates \in SeqsUpTo(DatePool, MaxDates) :
        /\ ~returned
        /\ call' = [fn |-> "infer_group_date", args |-> dates]
        /\ ret' = infer_group_date(dates)
        /\ returned' = TRUE
        /\ UNCHANGED <<script, rows, prev, passes, pc, files, unwritable, reports>>

CmEnsureDescriptionParens ==
    \E desc \in DescPool :
        /\ ~returned
        /\ call' = [fn |-> "cm_ensure_description_parens", args |-> <<desc>>]
        /\ ret' = cm_ensure_description_parens(desc)
        /\ returned' = TRUE
        /\ UNCHANGED <<script, rows, prev, passes, pc, files, unwritable, reports>>

EnsureDescriptionParens ==
    \E desc \in DescPool :
        /\ ~returned
        /\ call' = [fn |-> "ensure_description_parens", args |-> <<desc>>]
        /\ ret' = ensure_description_parens(desc)
        /\ returned' = TRUE
        /\ UNCHANGED <<script, rows, prev, passes, pc, files, unwritable, reports>>

ProcessLayerCount ==
    \E layer_count \in LayerCountPool, extension \in ExtensionPool,
       title \in TitlePool, filename \in FileNamePool :
        /\ ~returned
        /\ call' = [fn |-> "process_layer_count",
                    args |-> <<layer_count, extension, title, filename>>]
        /\ ret' = process_layer_count(layer_count, extension, title, filename)
        /\ returned' = TRUE
        /\ UNCHANGED <<script, rows, prev, passes, pc, files, unwritable, reports>>

InitCalls ==
    /\ call = NoCall
    /\ ret = <<>>
    /\ returned = FALSE
    /\ script = "none"
    /\ rows = <<>>
    /\ prev = <<>>
    /\ passes = 0
    /\ pc = "idle"
    /\ files = NoFiles
    /\ unwritable = {}
    /\ reports = <<>>

NextCalls ==
    \/ CmInferGroupDate
    \/ InferGroupDate
    \/ CmEnsureDescriptionParens
    \/ EnsureDescriptionParens
    \/ ProcessLayerCount

SpecCalls == InitCalls /\ [][NextCalls]_vars

----------------------------------------------------------------------------
(* Table files.  A CSV file is the sequence of its rows, each the sequence *)
(* of its cells, the header row first, as csv.reader yields them.  The     *)
(* tables are rectangular: every row has as many cells as the header, so   *)
(* csv.DictReader fills in no None and keeps no surplus cells.  A dict is  *)
(* the sequence of its <<key, value>> pairs in insertion order.            *)

dict_has(d, k) == \E i \in DOMAIN d : d[i][1] = k

\* d.get(k, default)
dict_get(d, k, default) ==
    IF dict_has(d, k) THEN d[CHOOSE i \in DOMAIN d : d[i][1] = k][2] ELSE default

\* d[k] = v
dict_set(d, k, v) ==
    IF dict_has(d, k)
    THEN [i \in DOMAIN d |-> IF d[i][1] = k THEN <<k, v>> ELSE d[i]]
    ELSE Append(d, <<k, v>>)

\* d.pop(k, None)
dict_pop(d, k) == SelectSeq(d, LAMBDA p : p[1] # k)

\* list(d.keys())
dict_keys(d) == [i \in DOMAIN d |-> d[i][1]]

\* dict(zip(fieldnames, row)) over the first n columns: a repeated column
\* name keeps its first place and its last value
RECURSIVE dict_zip(_, _, _)
dict_zip(fieldnames, row, n) ==
    IF n = 0 THEN <<>>
    ELSE dict_set(dict_zip(fieldnames, row, n - 1), fieldnames[n], row[n])

\* list(csv.DictReader(f)) of a file's rows
DictReader_rows(lines) ==
    [i \in 1..(Len(lines) - 1) |->
        dict_zip(lines[1], lines[i + 1], SetMin({Len(lines[1]), Len(lines[i + 1])}))]

\* csv.DictWriter(f, fieldnames).writerow(d) raises ValueError for a key that
\* is no field name (extrasaction='raise')
DictWriter_raises(d, fieldnames) ==
    \E i \in DOMAIN d : d[i][1] \notin Range(fieldnames)

\* the row it writes otherwise: a missing key gives ''
DictWriter_row(d, fieldnames) ==
    [i \in DOMAIN fieldnames |-> dict_get(d, fieldnames[i], <<>>)]

\* s.lower()
lower(s) ==
    [i \in DOMAIN s |->
        IF s[i] \in Range(UpperSeq)
        THEN LowerSeq[CHOOSE k \in DOMAIN UpperSeq : UpperSeq[k] = s[i]]
        ELSE s[i]]

\* s.replace(old, new), old not empty: non-overlapping, leftmost first
RECURSIVE replace(_, _, _)
replace(s, old, new) ==
    IF Len(s) < Len(old) THEN s
    ELSE IF SubSeq(s, 1, Len(old)) = old
         THEN new \o replace(SubSeq(s, Len(old) + 1, Len(s)), old, new)
         ELSE <<Head(s)>> \o replace(Tail(s), old, new)

\* s.split()[0]: the first run of non-white-space characters; s.split() is
\* empty, and [0] raises IndexError, when s is all white space
split_0_raises(s) == strip(s) = <<>>
split_0(s) ==
    LET t    == strip(s)
        stop == {i \in DOMAIN t : t[i] \in Whitespace}
    IN  IF stop = {} THEN t ELSE SubSeq(t, 1, SetMin(stop) - 1)

----------------------------------------------------------------------------
(* convert.py: the Row Normalizer, process_csv.                            *)

COL_SourceFile == <<"S","o","u","r","c","e","F","i","l","e">> (* "SourceFile" *)
COL_Title == <<"T","i","t","l","e">> (* "Title" *)
COL_FileName == <<"F","i","l","e","N","a","m","e">> (* "FileName" *)
COL_FileCreateDate == <<"F","i","l","e","C","r","e","a","t","e","D","a","t","e">> (* "FileCreateDate" *)
COL_PageCount == <<"P","a","g","e","C","o","u","n","t">> (* "PageCount" *)
COL_FileTypeExtension == <<"F","i","l","e","T","y","p","e","E","x","t","e","n","s","i","o","n">> (* "FileTypeExtension" *)
COL_MIMEType == <<"M","I","M","E","T","y","p","e">> (* "MIMEType" *)
COL_LayerCount == <<"L","a","y","e","r","C","o","u","n","t">> (* "LayerCount" *)
COL_filename == <<"f","i","l","e","n","a","m","e">> (* "filename" *)
COL_dc_title == <<"d","c",".","t","i","t","l","e">> (* "dc.title" *)
COL_dc_date == <<"d","c",".","d","a","t","e">> (* "dc.date" *)
COL_dc_format == <<"d","c",".","f","o","r","m","a","t">> (* "dc.format" *)
COL_dc_format2 == <<"d","c",".","f","o","r","m","a","t","2">> (* "dc.format2" *)
COL_dc_description == <<"d","c",".","d","e","s","c","r","i","p","t","i","o","n">> (* "dc.description" *)

\* lines 55-56
convert_colons_to_hyphens(date) ==
    IF date # <<>> THEN replace(date, <<":">>, <<"-">>) ELSE <<>>

\* lines 58-59; raises IndexError for a date of white space only
remove_text_from_date_raises(date) == date # <<>> /\ split_0_raises(date)
remove_text_from_date(date) == IF date # <<>> THEN split_0(date) ELSE <<>>

\* lines 61-75
add_page_count_extension(page_count, extension0) ==
    LET extension  == lower(extension0)
        photo_exts == {<<"p","s","d">> (* "psd" *), <<"j","p","g">> (* "jpg" *), <<"j","p","e","g">> (* "jpeg" *), <<"t","i","f">> (* "tif" *), <<"t","i","f","f">> (* "tiff" *), <<"p","n","g">> (* "png" *)}
    IN  IF extension \in photo_exts
        THEN <<"1"," ","p","h","o","t","o","g","r","a","p","h"," ","(">> (* "1 photograph (" *) \o extension \o <<")">>
        ELSE IF page_count = <<>> \/ strip(page_count) = <<>>
             THEN IF extension # <<>>
                  THEN <<"1"," ","d","i","g","i","t","a","l"," ","f","i","l","e"," ","(">> (* "1 digital file (" *) \o extension \o <<")">>
                  ELSE <<"1"," ","d","i","g","i","t","a","l"," ","f","i","l","e">> (* "1 digital file" *)
             ELSE IF extension # <<>>
                  THEN page_count \o <<" ","p","."," ","(">> (* " p. (" *) \o extension \o <<")">>
                  ELSE page_count \o <<" ","p",".">> (* " p." *)

\* lines 77-78
add_data_objects_prefix(source_file) ==
    IF source_file # <<>> THEN <<"d","a","t","a","/","o","b","j","e","c","t","s","/">> (* "data/objects/" *) \o source_file ELSE <<>>

\* lines 113-126; line 117 raises when remove_text_from_date does
modify_row_raises(row) ==
    remove_text_from_date_raises(
        convert_colons_to_hyphens(dict_get(row, COL_FileCreateDate, <<>>)))

modify_row(row) ==
    LET r1 == dict_set(row, COL_FileCreateDate,
                  remove_text_from_date(
                      convert_colons_to_hyphens(dict_get(row, COL_FileCreateDate, <<>>))))
        r2 == dict_set(r1, COL_SourceFile,
                  add_data_objects_prefix(dict_get(r1, COL_SourceFile, <<>>)))
        r3 == dict_set(r2, COL_PageCount,
                  add_page_count_extension(dict_get(r2, COL_PageCount, <<>>),
                                           dict_get(r2, COL_FileTypeExtension, <<>>)))
    IN  dict_set(r3, COL_LayerCount,
            process_layer_count(dict_get(r3, COL_LayerCount, <<>>),
                                dict_get(r3, COL_FileTypeExtension, <<>>),
                                dict_get(r3, COL_Title, <<>>),
                                dict_get(r3, COL_FileName, <<>>)))

\* lines 128-132
delete_columns(row) == dict_pop(dict_pop(row, COL_Title), COL_FileTypeExtension)

\* lines 135-142
column_mapping ==
    << <<COL_SourceFile, COL_filename>>,
       <<COL_FileName, COL_dc_title>>,
       <<COL_FileCreateDate, COL_dc_date>>,
       <<COL_PageCount, COL_dc_format>>,
       <<COL_MIMEType, COL_dc_format2>>,
       <<COL_LayerCount, COL_dc_description>> >>

\* lines 143-144, over the first n keys of the row
RECURSIVE rename_columns_upto(_, _)
rename_columns_upto(row, n) ==
    IF n = 0 THEN <<>>
    ELSE dict_set(rename_columns_upto(row, n - 1),
                  dict_get(column_mapping, row[n][1], row[n][1]), row[n][2])

rename_columns(row) == rename_columns_upto(row, Len(row))

\* lines 194-202: the field names of the output table
process_csv_fieldnames ==
    <<COL_filename, COL_dc_title, COL_dc_date, COL_dc_format, COL_dc_format2,
      COL_dc_description>>

\* lines 185-191: the rows as modified, deleted from and renamed
modified_rows(lines) ==
    LET rs == DictReader_rows(lines)
    IN  [i \in DOMAIN rs |-> rename_columns(delete_columns(modify_row(rs[i])))]

\* lines 187-188 raise on some row, before the output file is opened
process_csv_raises_early(lines) ==
    \E i \in DOMAIN DictReader_rows(lines) : modify_row_raises(DictReader_rows(lines)[i])

\* lines 205-207: the rows written before writerow raises, or all of them
process_csv_written(lines) ==
    LET ms  == modified_rows(lines)
        bad == {i \in DOMAIN ms : DictWriter_raises(ms[i], process_csv_fieldnames)}
        n   == IF bad = {} THEN Len(ms) ELSE SetMin(bad) - 1
    IN  [i \in 1..n |-> DictWriter_row(ms[i], process_csv_fieldnames)]

process_csv_raises_late(lines) ==
    \E i \in DOMAIN modified_rows(lines) :
        DictWriter_raises(modified_rows(lines)[i], process_csv_fieldnames)

\* lines 146-156, for a non-empty list of rows
check_and_add_columns(rs) ==
    LET f0 == dict_keys(rs[1])
        f1 == IF COL_PageCount \notin Range(f0) THEN Append(f0, COL_PageCount) ELSE f0
        f2 == IF COL_LayerCount \notin Range(f1) THEN Append(f1, COL_LayerCount) ELSE f1
    IN  IF COL_Title \notin Range(f2) THEN Append(f2, COL_Title) ELSE f2

\* lines 168-173: the file as rewritten, for a file with data rows
add_missing_columns_lines(lines) ==
    LET rs         == DictReader_rows(lines)
        fieldnames == check_and_add_columns(rs)
    IN  <<fieldnames>> \o [i \in DOMAIN rs |-> DictWriter_row(rs[i], fieldnames)]

----------------------------------------------------------------------------
(* convert.py: the second stage, process_csv_second_stage, on the rows of  *)
(* csv.reader (header included, positions counted from 1).                 *)

\* [''] * n
blanks(n) == [i \in 1..n |-> <<>>]

\* rows.insert(i, row), i counted from 1
insert(rs, i, row) == SubSeq(rs, 1, i - 1) \o <<row>> \o SubSeq(rs, i, Len(rs))

\* lines 270-275
add_objects_row(rs) ==
    insert(rs, 2, <<<<"o","b","j","e","c","t","s">> (* "objects" *)>> \o blanks(Len(rs[1]) - 1))

\* lines 277-284: every row after the header gets the folder of its first cell
copy_filename_to_filename2(rs) ==
    [i \in DOMAIN rs |->
        IF i = 1 THEN rs[i]
        ELSE Append(rs[i], SubSeq(rs[i][1], 1, rfind(rs[i][1], "/") - 1))]

\* row[-1]
last(row) == row[Len(row)]

\* lines 288-292: one round of the loop, for one unique value
add_row_above(rs, unique_value) ==
    LET new_row == <<unique_value>> \o blanks(Len(rs[1]) - 1)
        hits    == {i \in DOMAIN rs : last(rs[i]) = unique_value}
    IN  IF hits = {} THEN rs ELSE insert(rs, SetMin(hits), new_row)

\* lines 286-292: the loop runs over a set, in some order
RECURSIVE add_rows_above_unique_data(_, _)
add_rows_above_unique_data(rs, values) ==
    IF values = {} THEN rs
    ELSE LET v == CHOOSE v \in values : TRUE
         IN  add_rows_above_unique_data(add_row_above(rs, v), values \ {v})

\* lines 294-303
delete_rows_and_columns(rs) ==
    LET r1 == IF Len(rs) > 1 THEN <<rs[1]>> \o SubSeq(rs, 3, Len(rs)) ELSE rs
        r2 == [i \in DOMAIN r1 |->
                 IF i > 1 /\ Len(r1[i]) > 1 /\ r1[i][2] = <<>>
                 THEN [r1[i] EXCEPT ![1] = replace(@, <<"d","a","t","a","/">> (* "data/" *), <<>>)]
                 ELSE r1[i]]
    IN  [i \in DOMAIN r2 |->
            IF r2[i] # <<>> THEN SubSeq(r2[i], 1, Len(r2[i]) - 1) ELSE r2[i]]

\* lines 305-307
delete_first_row(rs) == IF rs # <<>> THEN Tail(rs) ELSE rs

\* lines 317-331: the rows written, for a file that has rows
second_stage_rows(lines) ==
    LET r1 == copy_filename_to_filename2(add_objects_row(lines))
        r2 == [r1 EXCEPT ![1] = Append(@, <<"f","i","l","e","n","a","m","e","2">> (* "filename2" *))]
        unique_filename2_candidates ==
            SelectSeq([i \in 1..(Len(r2) - 1) |-> last(r2[i + 1])], LAMBDA v : v # <<>>)
        unique_filename2 ==
            IF unique_filename2_candidates # <<>>
            THEN unique_filename2_candidates[1] ELSE <<>>
        r3 == add_rows_above_unique_data(r2,
                  {last(r2[i]) : i \in 2..Len(r2)} \ {<<"f","i","l","e","n","a","m","e","2">> (* "filename2" *)})
        r4 == IF Len(r3) > 1 THEN [r3 EXCEPT ![2][1] = unique_filename2] ELSE r3
    IN  delete_first_row(delete_rows_and_columns(r4))

----------------------------------------------------------------------------
(* convert.py: convert_metadata1_to_metadata, from the file read to the    *)
(* file written.                                                           *)

\* line 460
out_fields_base == process_csv_fieldnames

\* line 423: reader.fieldnames, or the six names for a file with no rows
reader_fieldnames(lines) == IF lines = <<>> THEN out_fields_base ELSE lines[1]

\* lines 460-463: the six names, then every other field name once, in order
RECURSIVE out_fields_upto(_, _)
out_fields_upto(fieldnames, n) ==
    IF n = 0 THEN out_fields_base
    ELSE LET sofar == out_fields_upto(fieldnames, n - 1)
         IN  IF fieldnames[n] \notin Range(sofar)
             THEN Append(sofar, fieldnames[n]) ELSE sofar

out_fields(lines) ==
    out_fields_upto(reader_fieldnames(lines), Len(reader_fieldnames(lines)))

\* the six named columns of a row the reader gave: r.get(k) or ""
record_of(d) ==
    Record(dict_get(d, COL_filename, <<>>), dict_get(d, COL_dc_title, <<>>),
           dict_get(d, COL_dc_date, <<>>), dict_get(d, COL_dc_format, <<>>),
           dict_get(d, COL_dc_format2, <<>>), dict_get(d, COL_dc_description, <<>>))

\* the row as a dict again: the six columns as converted, the others as read
dict_of(rec, d) ==
    LET d1 == dict_set(d, COL_filename, rec.filename)
        d2 == dict_set(d1, COL_dc_title, rec.title)
        d3 == dict_set(d2, COL_dc_date, rec.date)
        d4 == dict_set(d3, COL_dc_format, rec.format)
        d5 == dict_set(d4, COL_dc_format2, rec.format2)
    IN  dict_set(d5, COL_dc_description, rec.description)

\* lines 421-470: the header and rows written to outfile
convert_metadata1_to_metadata_file(lines) ==
    LET ds   == IF lines = <<>> THEN <<>> ELSE DictReader_rows(lines)
        recs == convert_metadata1_to_metadata([i \in DOMAIN ds |-> record_of(ds[i])])
    IN  <<out_fields(lines)>> \o
        [i \in DOMAIN ds |-> DictWriter_row(dict_of(recs[i], ds[i]), out_fields(lines))]

----------------------------------------------------------------------------
(* convert.py: create_rights_csv.                                          *)

\* int(s) accepts an optional sign and decimal digits, with single
\* underscores between digits; s has no white space here
int_accepts(s) ==
    LET body == IF s # <<>> /\ s[1] \in {"+", "-"} THEN Tail(s) ELSE s
    IN  /\ body # <<>>
        /\ \A i \in DOMAIN body : body[i] \in Digits \cup {"_"}
        /\ body[1] # "_" /\ body[Len(body)] # "_"
        /\ \A i \in 1..(Len(body) - 1) : ~(body[i] = "_" /\ body[i + 1] = "_")

\* its value, for a string it accepts
int_signed(s) ==
    LET body   == IF s[1] \in {"+", "-"} THEN Tail(s) ELSE s
        digits == SelectSeq(body, LAMBDA c : c # "_")
    IN  IF s[1] = "-" THEN 0 - int(digits) ELSE int(digits)

\* str(n) of any int
str_signed(n) == IF n < 0 THEN <<"-">> \o str(0 - n) ELSE str(n)

\* line 232-234
rights_fieldnames ==
    <<<<"f","i","l","e">> (* "file" *), <<"b","a","s","i","s">> (* "basis" *), <<"s","t","a","t","u","s">> (* "status" *), <<"d","e","t","e","r","m","i","n","a","t","i","o","n","_","d","a","t","e">> (* "determination_date" *), <<"j","u","r","i","s","d","i","c","t","i","o","n">> (* "jurisdiction" *),
      <<"s","t","a","r","t","_","d","a","t","e">> (* "start_date" *), <<"e","n","d","_","d","a","t","e">> (* "end_date" *), <<"n","o","t","e">> (* "note" *), <<"g","r","a","n","t","_","a","c","t">> (* "grant_act" *), <<"g","r","a","n","t","_","r","e","s","t","r","i","c","t","i","o","n">> (* "grant_restriction" *),
      <<"g","r","a","n","t","_","s","t","a","r","t","_","d","a","t","e">> (* "grant_start_date" *), <<"g","r","a","n","t","_","e","n","d","_","d","a","t","e">> (* "grant_end_date" *), <<"g","r","a","n","t","_","n","o","t","e">> (* "grant_note" *), <<"d","o","c","_","i","d","_","t","y","p","e">> (* "doc_id_type" *),
      <<"d","o","c","_","i","d","_","v","a","l","u","e">> (* "doc_id_value" *), <<"d","o","c","_","i","d","_","r","o","l","e">> (* "doc_id_role" *)>>

\* lines 239-241
start_date_raises(row) ==
    LET date == dict_get(row, COL_dc_date, <<>>)
    IN  date # <<>> /\ split_0_raises(date)

start_date(row) ==
    LET date == dict_get(row, COL_dc_date, <<>>)
    IN  IF date # <<>> THEN split_0(date) ELSE date

\* s[:4] and s[5:]
first4(s) == SubSeq(s, 1, SetMin({4, Len(s)}))
from5(s) == SubSeq(s, 6, Len(s))

\* line 252, with a year int() rejects replaced by 1970 instead of raising
end_date_year_defaulted(date) ==
    [raises |-> FALSE,
     value  |-> IF date # <<>>
                THEN str_signed((IF int_accepts(first4(date))
                                 THEN int_signed(first4(date)) ELSE 1970) + 100)
                     \o <<"-">> \o from5(date)
                ELSE <<>>]

\* line 252: the end date, or the ValueError of int() for a year it rejects
end_date(date) ==
    [raises |-> date # <<>> /\ ~int_accepts(first4(date)),
     value  |-> IF date # <<>> /\ int_accepts(first4(date))
                THEN str_signed(int_signed(first4(date)) + 100)
                     \o <<"-">> \o from5(date)
                ELSE <<>>]

\* lines 226-229 and 259
doc_id_type_mapping(doc_id_type) ==
    IF doc_id_type = <<"d">> THEN <<"D","e","e","d"," ","o","f"," ","G","i","f","t">> (* "Deed of Gift" *)
    ELSE IF doc_id_type = <<"u">> THEN <<"U","n","i","v","e","r","s","i","t","y"," ","R","e","c","o","r","d","s"," ","T","r","a","n","s","f","e","r">> (* "University Records Transfer" *)
    ELSE <<>>

\* lines 238-241 and 252: the row cannot be written
rights_row_raises(row) ==
    start_date_raises(row) \/ end_date(start_date(row)).raises

\* lines 245-262
rights_row(row, today, doc_id_type, doc_id_value) ==
    <<dict_get(row, COL_filename, <<>>), <<"c","o","p","y","r","i","g","h","t">> (* "copyright" *), <<"c","o","p","y","r","i","g","h","t","e","d">> (* "copyrighted" *), today, <<"c","a">> (* "ca" *),
      start_date(row), end_date(start_date(row)).value, <<"C","o","p","y","r","i","g","h","t"," ","h","e","l","d"," ","b","y"," ","c","r","e","a","t","o","r">> (* "Copyright held by creator" *),
      <<"d","i","s","s","e","m","i","n","a","t","e">> (* "disseminate" *), <<"C","o","n","d","i","t","i","o","n","a","l">> (* "Conditional" *), today, end_date(today).value,
      <<"M","a","y"," ","d","i","s","s","e","m","i","n","a","t","e"," ","w","i","t","h"," ","t","h","e"," ","p","e","r","m","i","s","s","i","o","n"," ","o","f"," ","t","h","e"," ","c","r","e","a","t","o","r",".">> (* "May disseminate with the permission of the creator." *),
      doc_id_type_mapping(doc_id_type), doc_id_value, <<"C","o","p","y","r","i","g","h","t"," ","h","e","l","d"," ","b","y"," ","c","r","e","a","t","o","r">> (* "Copyright held by creator" *)>>

\* lines 238-263: the rows written before one raises, or all of them
rights_written(lines, today, doc_id_type, doc_id_value) ==
    LET rs  == DictReader_rows(lines)
        bad == {i \in DOMAIN rs : rights_row_raises(rs[i])}
        n   == IF bad = {} THEN Len(rs) ELSE SetMin(bad) - 1
    IN  [i \in 1..n |-> rights_row(rs[i], today, doc_id_type, doc_id_value)]

create_rights_raises(lines) ==
    \E i \in DOMAIN DictReader_rows(lines) : rights_row_raises(DictReader_rows(lines)[i])

----------------------------------------------------------------------------
(* convert.py: main, from line 508 on, one action per stage.  The working  *)
(* directory holds the input table metadataExp.csv; a file named in        *)
(* unwritable is one the process may not create or replace, so that        *)
(* open(..., 'w') and shutil.copyfile onto it raise OSError.               *)

\* the file as open(name, 'w') and the writer leave it
put(fs, name, lines) == [fs EXCEPT ![name] = [exists |-> TRUE, lines |-> lines]]

\* print(...): the stage and what it reported
report(stage, outcome) == [stage |-> stage, outcome |-> outcome]

\* the header exiftool writes, and one with a column beyond the named ones
ExifHeader ==
    <<COL_SourceFile, COL_FileName, COL_FileCreateDate, COL_FileTypeExtension,
      COL_MIMEType>>
COL_Keywords == <<"K","e","y","w","o","r","d","s">> (* "Keywords" *)

\* rows of the input table, in the order of ExifHeader
ExifPhoto ==
    <<<<"A","/","1",".","j","p","g">> (* "A/1.jpg" *), <<"1",".","j","p","g">> (* "1.jpg" *), <<"2","0","1","0",":","0","5",":","0","1"," ","1","0",":","0","0",":","0","0","-","0","7",":","0","0">> (* "2010:05:01 10:00:00-07:00" *), <<"j","p","g">> (* "jpg" *), <<"i","m","a","g","e","/","j","p","e","g">> (* "image/jpeg" *)>>
ExifReport ==
    <<<<"A","/","2",".","p","d","f">> (* "A/2.pdf" *), <<"2",".","p","d","f">> (* "2.pdf" *), <<"u","n","d","a","t","e","d">> (* "undated" *), <<"p","d","f">> (* "pdf" *), <<"a","p","p","l","i","c","a","t","i","o","n","/","p","d","f">> (* "application/pdf" *)>>
ExifNotes ==
    <<<<"3",".","t","x","t">> (* "3.txt" *), <<"3",".","t","x","t">> (* "3.txt" *), <<>>, <<"t","x","t">> (* "txt" *), <<"t","e","x","t","/","p","l","a","i","n">> (* "text/plain" *)>>
ExifScan ==
    <<<<"A","/","B","/","4",".","t","i","f">> (* "A/B/4.tif" *), <<"4",".","t","i","f">> (* "4.tif" *), <<" ">>, <<"T","I","F">> (* "TIF" *), <<"i","m","a","g","e","/","t","i","f","f">> (* "image/tiff" *)>>

ExifRowPool == {ExifPhoto, ExifReport, ExifNotes, ExifScan}

\* the input tables: with or without the extra column
InputTables ==
    {<<ExifHeader>> \o rs : rs \in SeqsUpTo(ExifRowPool, MaxInputRows)}
    \cup {<<Append(ExifHeader, COL_Keywords)>> \o
              [i \in DOMAIN rs |-> Append(rs[i], <<"w","a","r">> (* "war" *))] :
          rs \in SeqsUpTo(ExifRowPool, MaxInputRows)}

\* what the user answers to the two prompts of create_rights_csv, stripped
\* and lowered, and the day the script runs
DocIdTypePool == {<<"u">>, <<"x">>}
DocIdValuePool == {<<"2","0","2","4","-","0","0","1">> (* "2024-001" *)}
TodayPool == {<<"2","0","2","6","-","1","1","-","0","1">> (* "2026-11-01" *)}

InitMain ==
    /\ pc = "add_missing_columns"
    /\ files \in {put(NoFiles, input_csv, t) : t \in InputTables}
    /\ unwritable \in {{}} \cup {{f} : f \in FileNames}
    /\ reports = <<>>
    /\ script = "convert.py"
    /\ rows = <<>>
    /\ prev = <<>>
    /\ passes = 0
    /\ call = NoCall
    /\ ret = <<>>
    /\ returned = FALSE

\* line 514: add_missing_columns(input_csv)
AddMissingColumns ==
    /\ pc = "add_missing_columns"
    /\ pc' = "process_csv"
    /\ IF ~files[input_csv].exists
       THEN /\ reports' = Append(reports, report("add_missing_columns", "failed"))
            /\ files' = files
       ELSE IF DictReader_rows(files[input_csv].lines) = <<>>
       THEN /\ reports' = Append(reports, report("add_missing_columns", "skipped"))
            /\ files' = files
       ELSE IF input_csv \in unwritable
       THEN /\ reports' = Append(reports, report("add_missing_columns", "failed"))
            /\ files' = files
       ELSE /\ reports' = Append(reports, report("add_missing_columns", "done"))
            /\ files' = put(files, input_csv,
                            add_missing_columns_lines(files[input_csv].lines))
    /\ UNCHANGED <<unwritable, script, rows, prev, passes, call, ret, returned>>

\* line 515: process_csv(input_csv, tmp_csv)
ProcessCsv ==
    /\ pc = "process_csv"
    /\ pc' = "process_csv_second_stage"
    /\ IF \/ ~files[input_csv].exists
          \/ process_csv_raises_early(files[input_csv].lines)
          \/ tmp_csv \in unwritable
       THEN /\ reports' = Append(reports, report("process_csv", "failed"))
            /\ files' = files
       ELSE /\ reports' = Append(reports, report("process_csv",
                              IF process_csv_raises_late(files[input_csv].lines)
                              THEN "failed" ELSE "done"))
            /\ files' = put(files, tmp_csv,
                            <<process_csv_fieldnames>> \o
                            process_csv_written(files[input_csv].lines))
    /\ UNCHANGED <<unwritable, script, rows, prev, passes, call, ret, returned>>

\* line 518: process_csv_second_stage(tmp_csv, tmp2_csv)
ProcessCsvSecondStage ==
    /\ pc = "process_csv_second_stage"
    /\ pc' = "copy"
    /\ IF ~files[tmp_csv].exists
       THEN /\ reports' = Append(reports, report("process_csv_second_stage", "failed"))
            /\ files' = files
       ELSE IF files[tmp_csv].lines = <<>>
       THEN /\ reports' = Append(reports, report("process_csv_second_stage", "skipped"))
            /\ files' = files
       ELSE IF tmp2_csv \in unwritable
       THEN /\ reports' = Append(reports, report("process_csv_second_stage", "failed"))
            /\ files' = files
       ELSE /\ reports' = Append(reports, report("process_csv_second_stage", "done"))
            /\ files' = put(files, tmp2_csv, second_stage_rows(files[tmp_csv].lines))
    /\ UNCHANGED <<unwritable, script, rows, prev, passes, call, ret, returned>>

\* lines 521-526: shutil.copyfile(tmp2_csv, metadata1_csv), or return
Copy ==
    /\ pc = "copy"
    /\ IF ~files[tmp2_csv].exists \/ metadata1_csv \in unwritable
       THEN /\ reports' = Append(reports, report("copy", "failed"))
            /\ files' = files
            /\ pc' = "returned"
       ELSE /\ reports' = Append(reports, report("copy", "done"))
            /\ files' = put(files, metadata1_csv, files[tmp2_csv].lines)
            /\ pc' = "convert_metadata1_to_metadata"
    /\ UNCHANGED <<unwritable, script, rows, prev, passes, call, ret, returned>>

\* line 529: convert_metadata1_to_metadata(metadata1_csv, final_metadata_csv);
\* nothing catches the OSError of line 465
RunConvertMetadata1ToMetadata ==
    /\ pc = "convert_metadata1_to_metadata"
    /\ IF ~files[metadata1_csv].exists
       THEN /\ reports' = Append(reports, report("convert_metadata1_to_metadata", "skipped"))
            /\ files' = files
            /\ pc' = "create_rights_csv"
       ELSE IF final_metadata_csv \in unwritable
       THEN /\ reports' = Append(reports, report("convert_metadata1_to_metadata", "raised"))
            /\ files' = files
            /\ pc' = "crashed"
       ELSE /\ reports' = Append(reports, report("convert_metadata1_to_metadata", "done"))
            /\ files' = put(files, final_metadata_csv,
                            convert_metadata1_to_metadata_file(files[metadata1_csv].lines))
            /\ pc' = "create_rights_csv"
    /\ UNCHANGED <<unwritable, script, rows, prev, passes, call, ret, returned>>

\* line 532: create_rights_csv()
CreateRightsCsv ==
    /\ pc = "create_rights_csv"
    /\ pc' = "cleanup"
    /\ \E doc_id_type \in DocIdTypePool, doc_id_value \in DocIdValuePool,
          today \in TodayPool :
        IF ~files[tmp_csv].exists \/ rights_file \in unwritable
        THEN /\ reports' = Append(reports, report("create_rights_csv", "failed"))
             /\ files' = files
        ELSE /\ reports' = Append(reports, report("create_rights_csv",
                               IF create_rights_raises(files[tmp_csv].lines)
                               THEN "failed" ELSE "done"))
             /\ files' = put(files, rights_file,
                             <<rights_fieldnames>> \o
                             rights_written(files[tmp_csv].lines, today,
                                            doc_id_type, doc_id_value))
    /\ UNCHANGED <<unwritable, script, rows, prev, passes, call, ret, returned>>

\* lines 535-547: remove the two temporary files that exist
Cleanup ==
    /\ pc = "cleanup"
    /\ pc' = "returned"
    /\ reports' = Append(reports, report("cleanup", "done"))
    /\ files' = [files EXCEPT ![tmp_csv] = Absent, ![tmp2_csv] = Absent]
    /\ UNCHANGED <<unwritable, script, rows, prev, passes, call, ret, returned>>

NextMain ==
    \/ AddMissingColumns
    \/ ProcessCsv
    \/ ProcessCsvSecondStage
    \/ Copy
    \/ RunConvertMetadata1ToMetadata
    \/ CreateRightsCsv
    \/ Cleanup

SpecMain == InitMain /\ [][NextMain]_vars

----------------------------------------------------------------------------
(* What the claims speak of, stated apart from the code's own loops.       *)

\* the record list the grouping of the last pass worked on (rows at
\* convert_metadata.py line 109, convert.py line 426)
Grouped ==
    IF script = "convert_metadata.py" THEN cm_remove_first_objects(prev) ELSE prev

IsMarker(r) == startswith(r.filename, <<"o","b","j","e","c","t","s","/">> (* "objects/" *))
IsDataRow(r) == startswith(r.filename, <<"d","a","t","a","/","o","b","j","e","c","t","s","/">> (* "data/objects/" *))
Blank(s) == \A i \in DOMAIN s : s[i] \in Whitespace

Markers(rs) == {m \in DOMAIN rs : IsMarker(rs[m])}

\* the records strictly between marker m and the next marker or the end
Between(rs, m) == {j \in DOMAIN rs : j > m /\ \A k \in (m + 1)..j : ~IsMarker(rs[k])}

\* their stripped dates, in list order
DatesBetween(rs, m) ==
    [k \in 1..Cardinality(Between(rs, m)) |-> strip(rs[m + k].date)]

\* the substring after the final "/"
AfterLastSlash(s) ==
    CHOOSE t \in {SubSeq(s, k, Len(s)) : k \in 1..(Len(s) + 1)} :
        /\ \A i \in DOMAIN t : t[i] # "/"
        /\ Len(t) = Len(s) \/ s[Len(s) - Len(t)] = "/"

\* the group indices, child ranges, child dates and inferred dates of the
\* script that ran
RanGroupIndices ==
    IF script = "convert_metadata.py"
    THEN cm_group_indices(Grouped, 1) ELSE group_indices(Grouped, 1)
RanChildRange(i) ==
    IF script = "convert_metadata.py"
    THEN cm_child_range(Grouped, RanGroupIndices, i)
    ELSE child_range(Grouped, RanGroupIndices, i)
RanChildDates(i) ==
    IF script = "convert_metadata.py"
    THEN cm_child_dates(Grouped, RanGroupIndices, i)
    ELSE child_dates(Grouped, RanGroupIndices, i)
RanInfer(dates) ==
    IF script = "convert_metadata.py"
    THEN cm_infer_group_date(dates) ELSE infer_group_date(dates)

----------------------------------------------------------------------------
----------------------------------------------------------------------------
(* C4: a second pass over the output of a pass changes nothing: the rows   *)
(* written by the second pass are the rows it read.                        *)
C4_Idempotent ==
    passes = 2 => rows = prev

\* C4, for convert.py's convert_metadata1_to_metadata alone
C4_ConvertPyIdempotent ==
    (script = "convert.py" /\ passes = 2) => rows = prev

\* convert.py's pass ran twice on a list it had changed the first time
C4_ConvertPyWitness ==
    /\ script = "convert.py"
    /\ passes = 2
    /\ \E m \in DOMAIN prev : IsMarker(prev[m])
    /\ \E d \in DOMAIN prev : IsDataRow(prev[d]) /\ prev[d].description[11] = "("

----------------------------------------------------------------------------
----------------------------------------------------------------------------
----------------------------------------------------------------------------
----------------------------------------------------------------------------
(* The claims about the helpers called directly.                           *)

IsInferCall == returned /\ call.fn \in {"cm_infer_group_date", "infer_group_date"}
IsParensCall ==
    returned /\ call.fn \in {"cm_ensure_description_parens", "ensure_description_parens"}
IsLayerCall == returned /\ call.fn = "process_layer_count"

\* the child dates left after dropping the empty and blank ones
Remaining(dates) == SelectSeq(dates, LAMBDA d : ~Blank(d))
Occurrences(vals, v) == Cardinality({i \in DOMAIN vals : vals[i] = v})
TopCount(vals) == SetMax({Occurrences(vals, vals[i]) : i \in DOMAIN vals})

\* the 19xx/20xx four-digit years found in the strings, as they are written
YearsIn(vals) == UNION {Range(YEAR_RE_findall(vals[i], 1)) : i \in DOMAIN vals}
FirstYear(Y) == CHOOSE y \in Y : \A z \in Y : int(y) <= int(z)
LastYear(Y) == CHOOSE y \in Y : \A z \in Y : int(z) <= int(y)

HasItemForm(desc, ext, tail) ==
    /\ desc = <<"I","t","e","m"," ","i","s"," ","a"," ">> (* "Item is a " *) \o ext \o <<" ","f","i","l","e">> (* " file" *) \o tail
    /\ ext # <<>>
    /\ \A i \in DOMAIN ext : ext[i] \in Alnum
    /\ tail = <<>> \/ tail[1] \notin WordChars
    /\ \A i \in DOMAIN tail : tail[i] # "\n"

Splits(desc) ==
    {<<SubSeq(desc, 11, n), SubSeq(desc, n + 6, Len(desc))>> : n \in 11..(Len(desc) - 5)}

ParensApplied(fn, desc) ==
    IF fn = "cm_ensure_description_parens"
    THEN cm_ensure_description_parens(desc) ELSE ensure_description_parens(desc)

(* C5: ensure_description_parens turns "Item is a <EXT> file..." into      *)
(* "Item is a (<EXT>) file...", returns every other description as it is,  *)
(* and applied to its own result returns that result.                      *)
C5_ParensRewrite ==
    IsParensCall =>
        LET desc == call.args[1]
        IN  /\ \A p \in Splits(desc) :
                   HasItemForm(desc, p[1], p[2]) =>
                       ret = <<"I","t","e","m"," ","i","s"," ","a"," ","(">> (* "Item is a (" *) \o p[1] \o <<")"," ","f","i","l","e">> (* ") file" *) \o p[2]
            /\ (\A p \in Splits(desc) : ~HasItemForm(desc, p[1], p[2])) => ret = desc
            /\ ParensApplied(call.fn, ret) = ret

\* C5, for convert.py's ensure_description_parens alone
C5_ConvertPyRewrite ==
    call.fn = "ensure_description_parens" => C5_ParensRewrite

(* C9: for a layerCount that is no digit string, process_layer_count       *)
(* returns "Item is a <ext> file relating to <label>." with the clause of  *)
(* an absent extension or label dropped, label being the stripped title    *)
(* unless blank or "NULL" in any case, else the file's base name without   *)
(* its extension.                                                          *)
C9_DescribeItem ==
    (IsLayerCall /\ ~isdigit(call.args[1])) =>
        LET ext   == call.args[2]
            title == strip(call.args[3])
            fname == strip(call.args[4])
            label == IF title # <<>> /\ upper(title) # <<"N","U","L","L">> (* "NULL" *) THEN title
                     ELSE IF fname # <<>>
                          THEN os_path_splitext_root(AfterLastSlash(fname))
                          ELSE <<>>
        IN  ret = <<"I","t","e","m"," ","i","s"," ","a">> (* "Item is a" *)
                  \o (IF ext # <<>> THEN <<" ">> \o ext ELSE <<>>)
                  \o <<" ","f","i","l","e">> (* " file" *)
                  \o (IF label # <<>> THEN <<" ","r","e","l","a","t","i","n","g"," ","t","o"," ">> (* " relating to " *) \o label ELSE <<>>)
                  \o <<".">>

(* C10: for a layerCount that is the digit string of n,                    *)
(* process_layer_count returns "Item is a Photoshop file with <n+1>        *)
(* layers." when n > 1 and "... <n+1> layer." otherwise, whatever the      *)
(* extension, title and filename: "1" gives "2 layer.", "5" "6 layers.".   *)
C10_LayerCount ==
    (IsLayerCall /\ isdigit(call.args[1])) =>
        LET n == int(call.args[1])
        IN  /\ ret = <<"I","t","e","m"," ","i","s"," ","a"," ","P","h","o","t","o","s","h","o","p"," ","f","i","l","e"," ","w","i","t","h"," ">> (* "Item is a Photoshop file with " *) \o str(n + 1)
                     \o (IF n > 1 THEN <<" ","l","a","y","e","r","s",".">> (* " layers." *) ELSE <<" ","l","a","y","e","r",".">> (* " layer." *))
            /\ call.args[1] = <<"1">> => ret = <<"I","t","e","m"," ","i","s"," ","a"," ","P","h","o","t","o","s","h","o","p"," ","f","i","l","e"," ","w","i","t","h"," ","2"," ","l","a","y","e","r",".">> (* "Item is a Photoshop file with 2 layer." *)
            /\ call.args[1] = <<"5">> => ret = <<"I","t","e","m"," ","i","s"," ","a"," ","P","h","o","t","o","s","h","o","p"," ","f","i","l","e"," ","w","i","t","h"," ","6"," ","l","a","y","e","r","s",".">> (* "Item is a Photoshop file with 6 layers." *)
            /\ call.args[1] = <<"9">> => ret = <<"I","t","e","m"," ","i","s"," ","a"," ","P","h","o","t","o","s","h","o","p"," ","f","i","l","e"," ","w","i","t","h"," ","1","0"," ","l","a","y","e","r","s",".">> (* "Item is a Photoshop file with 10 layers." *)

\* process_layer_count("1", "psd", "", "x.psd") returned the singular
C10_Witness ==
    /\ IsLayerCall
    /\ call.args = <<<<"1">>, <<"p","s","d">> (* "psd" *), <<>>, <<"x",".","p","s","d">> (* "x.psd" *)>>
    /\ ret = <<"I","t","e","m"," ","i","s"," ","a"," ","P","h","o","t","o","s","h","o","p"," ","f","i","l","e"," ","w","i","t","h"," ","2"," ","l","a","y","e","r",".">> (* "Item is a Photoshop file with 2 layer." *)

----------------------------------------------------------------------------
(* C15: convert of convert_metadata.py and convert_metadata1_to_metadata   *)
(* of convert.py write the same records, in the same order and with the    *)
(* same six field values, for the same record list read: whichever ran,    *)
(* the rows written are the rows either would write.                       *)
C15_SameOutput ==
    passes >= 1 =>
        /\ rows = cm_convert(prev)
        /\ rows = convert_metadata1_to_metadata(prev)

\* C15, for lists holding no row named "objects" and no description of the
\* form "Item is a <EXT> file": there the two passes do agree
C15_AgreeElsewhere ==
    (/\ passes >= 1
     /\ \A k \in DOMAIN prev :
            /\ strip(prev[k].filename) # <<"o","b","j","e","c","t","s">> (* "objects" *)
            /\ ITEM_RE_match(prev[k].description) = <<>>) =>
        /\ rows = cm_convert(prev)
        /\ rows = convert_metadata1_to_metadata(prev)

----------------------------------------------------------------------------
(* Claims about main() of convert.py, checked under SpecMain.              *)

\* the stage has run and reported
Ran(stage) == \E i \in DOMAIN reports : reports[i].stage = stage

\* what it reported
Outcome(stage) == reports[CHOOSE i \in DOMAIN reports : reports[i].stage = stage].outcome

\* the eight columns the input table schema names
NamedColumns ==
    {COL_SourceFile, COL_Title, COL_FileName, COL_FileCreateDate, COL_PageCount,
     COL_FileTypeExtension, COL_MIMEType, COL_LayerCount}

\* the six columns every output table starts with
SixColumns == Range(process_csv_fieldnames)

\* the value of data row i (counted from 1) of a table under a column name
CellOf(lines, i, name) == dict_get(DictReader_rows(lines)[i], name, <<>>)

\* the column names of a header outside a set, each once, in order
OtherColumns(header, known) ==
    LET idx == {k \in DOMAIN header :
                   /\ header[k] \notin known
                   /\ \A j \in 1..(k - 1) : header[j] # header[k]}
    IN  [n \in 1..Cardinality(idx) |->
            header[CHOOSE k \in idx : Cardinality({j \in idx : j <= k}) = n]]

\* process_csv has just run on a table with data rows that it could read and
\* transform, onto a file it could write
ProcessCsvRan ==
    /\ pc = "process_csv_second_stage"
    /\ files[input_csv].exists
    /\ Len(files[input_csv].lines) > 1
    /\ tmp_csv \notin unwritable
    /\ ~process_csv_raises_early(files[input_csv].lines)

\* the Group Synthesizer has just written metadata.csv from metadata1.csv
GroupStageRan ==
    /\ pc = "create_rights_csv"
    /\ Outcome("convert_metadata1_to_metadata") = "done"

\* C11, the Row Normalizer's part: process_csv writes every row of its input
\* with the columns beyond the eight named ones and their values
C11_ProcessCsvPassesThrough ==
    ProcessCsvRan =>
        LET inp == files[input_csv].lines
            out == files[tmp_csv].lines
        IN  /\ files[tmp_csv].exists
            /\ Len(out) = Len(inp)
            /\ \A c \in Range(OtherColumns(inp[1], NamedColumns)) :
                   /\ c \in Range(out[1])
                   /\ \A i \in 1..(Len(inp) - 1) : CellOf(out, i, c) = CellOf(inp, i, c)

\* C11, the Group Synthesizer's part: convert_metadata1_to_metadata writes the
\* six columns first, then the other columns of its input in their order,
\* and every row keeps its values under them
C11_GroupStagePassesThrough ==
    GroupStageRan =>
        LET inp == files[metadata1_csv].lines
            out == files[final_metadata_csv].lines
        IN  /\ Len(out) = SetMax({Len(inp), 1})
            /\ out[1] = process_csv_fieldnames \o
                        OtherColumns(reader_fieldnames(inp), SixColumns)
            /\ \A c \in Range(OtherColumns(reader_fieldnames(inp), SixColumns)) :
                   \A i \in 1..(Len(inp) - 1) : CellOf(out, i, c) = CellOf(inp, i, c)

\* C11: extra input columns are passed through by process_csv and by the
\* Group Synthesizer stage, values preserved, the six columns first
C11_ExtraColumnsPassedThrough ==
    C11_ProcessCsvPassesThrough /\ C11_GroupStagePassesThrough

\* the file a stage writes
OutputOf(stage) ==
    CASE stage = "process_csv" -> tmp_csv
      [] stage = "process_csv_second_stage" -> tmp2_csv
      [] stage = "convert_metadata1_to_metadata" -> final_metadata_csv
      [] stage = "create_rights_csv" -> rights_file

\* the stage failed, and its output file is not there
NothingLeftBy(stage) ==
    (Ran(stage) /\ Outcome(stage) \in {"failed", "raised"}) =>
        ~files[OutputOf(stage)].exists

\* C12: a stage that fails leaves no output file, neither truncated nor
\* header-only, at its final path
C12_NoPartialOutput ==
    \A stage \in {"process_csv", "process_csv_second_stage",
                  "convert_metadata1_to_metadata", "create_rights_csv"} :
        NothingLeftBy(stage)

\* C12, the part that holds: the second stage and the Group Synthesizer
\* transform the whole table before they open their output
C12_WholeTableStages ==
    /\ NothingLeftBy("process_csv_second_stage")
    /\ NothingLeftBy("convert_metadata1_to_metadata")

\* lines 514-547: the order main() runs its stages in
StageOrder ==
    <<"add_missing_columns", "process_csv", "process_csv_second_stage", "copy",
      "convert_metadata1_to_metadata", "create_rights_csv", "cleanup">>

\* C13, the part that holds: the stages report in main()'s order, none
\* twice, and a later stage only after every earlier one
C13_StagesInOrder ==
    /\ Len(reports) <= Len(StageOrder)
    /\ \A i \in DOMAIN reports : reports[i].stage = StageOrder[i]

\* C13: the stages run in order, a stage whose input file is missing reports
\* and skips, and no run of main() ends with an uncaught exception
C13_OrderedAndNoUncaught ==
    /\ C13_StagesInOrder
    /\ (Ran("process_csv_second_stage") /\ ~files[tmp_csv].exists
        /\ Outcome("process_csv") = "failed")
           => Outcome("process_csv_second_stage") \in {"failed", "skipped"}
    /\ pc # "crashed"

\* the date is present and its leading 4 characters are no integer
Malformed(date) == date # <<>> /\ ~int_accepts(first4(date))

\* the year + 100, then the month-day suffix of a well-formed date
Plus100(date) ==
    str_signed(int_signed(first4(date)) + 100) \o <<"-">> \o from5(date)

\* the columns start_date and end_date of rights.csv
StartDateColumn == 6
EndDateColumn == 7

\* create_rights_csv has just run on a metadataTmp.csv it could read, onto a
\* rights.csv it could write
RightsRan ==
    /\ pc = "cleanup"
    /\ files[tmp_csv].exists
    /\ rights_file \notin unwritable

\* the dates of the records create_rights_csv read
RightsDates ==
    [i \in 1..(Len(files[tmp_csv].lines) - 1) |->
        CellOf(files[tmp_csv].lines, i, COL_dc_date)]

\* C14: create_rights_csv writes, for a record with a well-formed date, the
\* year + 100 and the same suffix as end_date; at the first record whose
\* date is malformed it stops with a reported failure, and writes no
\* end_date for it
C14_FailsLoudly ==
    RightsRan =>
        LET dates   == RightsDates
            written == Tail(files[rights_file].lines)
            bad     == {i \in DOMAIN dates : Malformed(dates[i])}
        IN  /\ \A i \in DOMAIN written :
                   /\ i \in DOMAIN dates
                   /\ ~Malformed(dates[i])
                   /\ written[i][StartDateColumn] = dates[i]
                   /\ written[i][EndDateColumn] =
                          IF dates[i] = <<>> THEN <<>> ELSE Plus100(dates[i])
            /\ bad # {} =>
                   /\ Outcome("create_rights_csv") = "failed"
                   /\ Len(written) = SetMin(bad) - 1
            /\ bad = {} =>
                   /\ Outcome("create_rights_csv") = "done"
                   /\ Len(written) = Len(dates)

\* a record with a well-formed date got its end_date, and the record after
\* it, with a malformed date, stopped the stage
C14_Witness ==
    /\ RightsRan
    /\ Len(RightsDates) = 2
    /\ RightsDates[1] = <<"2","0","1","0","-","0","5","-","0","1">> (* "2010-05-01" *)
    /\ Malformed(RightsDates[2])
    /\ Len(files[rights_file].lines) = 2
    /\ files[rights_file].lines[2][EndDateColumn] = <<"2","1","1","0","-","0","5","-","0","1">> (* "2110-05-01" *)
    /\ Outcome("create_rights_csv") = "failed"

====
